---- MODULE Spec2Model ----
(***************************************************************************)
(* Model of the concurrent caches of wtf:                                  *)
(*   - modules/jira/client.go: UserIDCacheMap (Get / Set / Clear), a       *)
(*     username -> account ID cache with expiry, guarded by a RWMutex;     *)
(*   - modules/azurelogs/query.go: the registry LogQueryClients guarded by *)
(*     clientsMutex, filled lazily by RunQuery.                            *)
(*   - modules/jira/client.go: ConvertJQLWithUsername, which resolves a    *)
(*     username through the cache and the JIRA server, and the pure        *)
(*     function extractAccountIDFromJQL it relies on.                      *)
(*   - modules/azurelogs/widget.go: the azurelogs Widget, whose fields are *)
(*     written by Refresh, by content() and by the fetchDataAsync          *)
(*     goroutines without a lock.                                          *)
(*   - modules/ping: doPings, which pings every host in a goroutine of its *)
(*     own and waits for all of them.                                      *)
(* Every goroutine is a small program counter machine; one action is one   *)
(* statement (or one run of statements executed under a held lock).        *)
(***************************************************************************)
EXTENDS Integers, FiniteSets, Sequences, TLC

(* ------------------------------ bounds -------------------------------- *)
NumCallers == 2     \* goroutines calling RunQuery
MaxTime == 2        \* the clock runs 0..MaxTime
MaxTTL == 1         \* durations passed to Set range over MinTTL..MaxTTL
MaxClients == 3     \* *azquery.LogsClient values ever allocated
MaxLen == 4         \* length of the strings given to extractAccountIDFromJQL
MaxFetches == 2     \* fetchDataAsync goroutines that run at the same time
MaxRedraws == 2     \* content() closures queued on the drawing goroutine
NumHosts == 3       \* hosts in the settings of the ping widget

Procs == {1, 2}     \* the goroutines calling into the cache
Callers == 1..NumCallers
SeqProcs == {1}
Keys == {"alice", "bob"}
AccountIDs == {"acct1", "acct2"}
MinTTL == 0 - 1
Durations == MinTTL..MaxTTL
Subs == {"subA", "subB"}

None == "none"

VARIABLES
    cache,            \* UserIDCacheMap.cache: username -> UserIDCache
    mutex,            \* UserIDCacheMap.mutex: [readers, writer]
    now,              \* the clock read by time.Now()
    call,             \* per goroutine: the cache call it is executing
    lastSet,          \* history: the Set that returned last, if nothing was stored or swept since
    LogQueryClients,  \* [isNil, m]: the registry map (nil until made)
    clientsMutex,     \* [readers, writer]
    nextClient,       \* identity of the next *azquery.LogsClient allocated
    rq,               \* per goroutine: the RunQuery call it is executing
    hist,             \* history of the registry, read only by the properties
    cj,               \* per goroutine: the ConvertJQLWithUsername call it is executing
    ex,               \* a call of extractAccountIDFromJQL: its argument and result
    widget,           \* azurelogs.Widget: settings and loading, lastError, dataLoaded, tableData
    refresh,          \* the goroutine of the shell that calls Widget.Refresh
    draw,             \* the drawing goroutine of the shell, which runs content()
    fetch,            \* the goroutines started by `go widget.fetchDataAsync()`
    hosts,            \* ping.Widget.hosts
    ping              \* the call of ping.Widget.doPings and the goroutines it started

vars == <<cache, mutex, now, call, lastSet, LogQueryClients, clientsMutex, nextClient, rq, hist,
          cj, ex, widget, refresh, draw, fetch, hosts, ping>>
cacheVars == <<cache, mutex, now, call, lastSet>>
regVars == <<LogQueryClients, clientsMutex, nextClient, rq, hist>>
jqlVars == <<cj, ex>>
widgetVars == <<widget, refresh, draw, fetch>>
pingVars == <<hosts, ping>>

(* --------------------------- sync.RWMutex ----------------------------- *)
NoWriter == 0
FreeMutex == [readers |-> {}, writer |-> NoWriter]

CanRLock_DuringWrite(m) == TRUE

CanRLock(m) == m.writer = NoWriter
CanLock(m) == m.writer = NoWriter /\ m.readers = {}
RLocked(m, g) == [m EXCEPT !.readers = @ \cup {g}]
RUnlocked(m, g) == [m EXCEPT !.readers = @ \ {g}]
Locked(m, g) == [m EXCEPT !.writer = g]
Unlocked(m, g) == [m EXCEPT !.writer = NoWriter]

(* ------------------------- UserIDCacheMap ----------------------------- *)
\* The zero value of UserIDCache, what a map read yields for an absent key.
ZeroTime == MinTTL - 1
ZeroEntry == [AccountID |-> "", ExpiresAt |-> ZeroTime]

Expired_Late(t, entry) == t > entry.ExpiresAt + 1

Expired_Always(t, entry) == TRUE

\* time.Now().After(entry.ExpiresAt)
Expired(t, entry) == t > entry.ExpiresAt

MapGet(m, k) == IF k \in DOMAIN m THEN m[k] ELSE ZeroEntry
MapPut(m, k, e) == [x \in DOMAIN m \cup {k} |-> IF x = k THEN e ELSE m[x]]
MapDelete_All(m, k) == [x \in {} |-> m[x]]

\* delete(m, k)
MapDelete(m, k) == [x \in DOMAIN m \ {k} |-> m[x]]

IdleCall == [pc |-> "idle", key |-> None, val |-> "", ttl |-> 0,
             entry |-> ZeroEntry, ret |-> <<"", FALSE>>, last |-> None,
             expect |-> ZeroEntry, refreshed |-> ZeroEntry, dead |-> FALSE,
             conv |-> FALSE]

\* What a goroutine keeps once its call has returned: the call and its result.
Returned(op, k, r) == [IdleCall EXCEPT !.last = op, !.key = k, !.ret = r]

\* entry: what a Set with a positive duration promised; dead: the Set had a
\* duration of zero or less; conv: the Set was the one ConvertJQLWithUsername
\* makes.
NoSet == [key |-> None, entry |-> ZeroEntry, dead |-> FALSE, conv |-> FALSE]

\* History kept for the properties. What the caller of Set(k, v, d) at time t
\* is entitled to read back: v, until d has passed.
Promised(v, t, d) == [AccountID |-> v, ExpiresAt |-> t + d]

\* History kept for the properties. A store or sweep by goroutine h ends the
\* "nothing stored or swept since the last Set" period of every call in flight.
EndStable(c, h) ==
    [g \in Procs |->
        IF g # h /\ c[g].pc # "idle"
        THEN [c[g] EXCEPT !.expect = ZeroEntry, !.dead = FALSE, !.conv = FALSE]
        ELSE c[g]]

\* History kept for the properties. A write by goroutine h to key k (to every
\* key when k is None) tells each Get waiting for the write lock on k whether
\* k was refreshed (e, written by a Set with ttl > 0) or touched otherwise.
Touched(c, h, k, e, fresh) ==
    [g \in Procs |->
        IF g # h /\ c[g].pc = "get_lock" /\ (k = None \/ c[g].key = k)
        THEN [c[g] EXCEPT !.refreshed = IF fresh THEN e ELSE ZeroEntry]
        ELSE c[g]]

(* The frame of a ConvertJQLWithUsername call, which the calls below clear. *)
\* error values: the nil error, or what went wrong and the text it carries
NilErr == [kind |-> "nil", arg |-> ""]
Err(kind, arg) == [kind |-> kind, arg |-> arg]

\* no response: what jiraPostRequest and utils.ParseJSON yield is below
NoResp == [err |-> "nil", parsed |-> FALSE, QueryStrings |-> <<>>]

\* pre (history): the cache map as the call found it; evicted (history): the
\* call's own look-up removed the entry of the username. After the return, and
\* until the goroutine's next call, the record keeps the username, the
\* returned pair, the number of requests posted and evicted.
IdleCj == [pc |-> "idle", username |-> None, posts |-> 0, pre |-> <<>>,
           resp |-> NoResp, accountID |-> "", convertedQuery |-> "",
           ret |-> <<"", NilErr>>, evicted |-> FALSE, miss |-> None]

\* The frame of Get(k) once it holds the read lock.
GetCalled(k) ==
    [IdleCall EXCEPT !.pc = "get_lookup", !.key = k,
                     !.expect = IF lastSet.key = k THEN lastSet.entry ELSE ZeroEntry,
                     !.dead = lastSet.key = k /\ lastSet.dead,
                     !.conv = lastSet.key = k /\ lastSet.conv]

\* The frame of Set(k, v, d) once it holds the write lock.
SetCalled(k, v, d) ==
    [IdleCall EXCEPT !.pc = "set_store", !.key = k, !.val = v, !.ttl = d]

\* The goroutine calls Get(username): c.mutex.RLock(). A goroutine blocked in
\* this first lock of a call is not told apart from one that has not called yet.
GetRLock(g) ==
    /\ call[g].pc = "idle"
    /\ cj[g].pc = "idle"
    /\ CanRLock(mutex)
    /\ mutex' = RLocked(mutex, g)
    /\ \E k \in Keys : call' = [call EXCEPT ![g] = GetCalled(k)]
    /\ cj' = [cj EXCEPT ![g] = IdleCj]
    /\ UNCHANGED <<cache, now, lastSet, regVars, ex, widgetVars, pingVars>>

\* entry, exists := c.cache[username]; if !exists { RUnlock; return "", false }
GetLookup(g) ==
    /\ call[g].pc = "get_lookup"
    /\ LET k == call[g].key
           exists == k \in DOMAIN cache
       IN IF exists
          THEN /\ call' = [call EXCEPT ![g].pc = "get_check",
                                       ![g].entry = MapGet(cache, k)]
               /\ UNCHANGED mutex
          ELSE /\ call' = [call EXCEPT ![g] = Returned("Get", k, <<"", FALSE>>)]
               /\ mutex' = RUnlocked(mutex, g)
    /\ UNCHANGED <<cache, now, lastSet, regVars, jqlVars, widgetVars, pingVars>>

\* if time.Now().After(entry.ExpiresAt) { RUnlock ... } else
\* { accountID := entry.AccountID; RUnlock; return accountID, true }
GetCheck(g) ==
    /\ call[g].pc = "get_check"
    /\ mutex' = RUnlocked(mutex, g)
    /\ IF Expired(now, call[g].entry)
       THEN call' = [call EXCEPT ![g] = [IdleCall EXCEPT !.pc = "get_lock",
                                            !.key = call[g].key]]
       ELSE call' = [call EXCEPT ![g] =
                        Returned("Get", call[g].key, <<call[g].entry.AccountID, TRUE>>)]
    /\ UNCHANGED <<cache, now, lastSet, regVars, jqlVars, widgetVars, pingVars>>

\* c.mutex.Lock() of the expired path
GetLock(g) ==
    /\ call[g].pc = "get_lock"
    /\ CanLock(mutex)
    /\ mutex' = Locked(mutex, g)
    /\ call' = [call EXCEPT ![g].pc = "get_delete"]
    /\ UNCHANGED <<cache, now, lastSet, regVars, jqlVars, widgetVars, pingVars>>

\* delete(c.cache, username)
GetDelete(g) ==
    /\ call[g].pc = "get_delete"
    /\ cache' = MapDelete(cache, call[g].key)
    /\ call' = [Touched(call, g, call[g].key, ZeroEntry, FALSE)
                   EXCEPT ![g].pc = "get_unlock"]
    /\ UNCHANGED <<mutex, now, lastSet, regVars, jqlVars, widgetVars, pingVars>>

\* c.mutex.Unlock(); return "", false
GetUnlock(g) ==
    /\ call[g].pc = "get_unlock"
    /\ mutex' = Unlocked(mutex, g)
    /\ call' = [call EXCEPT ![g] = Returned("Get", call[g].key, <<"", FALSE>>)]
    /\ UNCHANGED <<cache, now, lastSet, regVars, jqlVars, widgetVars, pingVars>>

\* The goroutine calls Set(username, accountID, duration): c.mutex.Lock()
SetLock(g) ==
    /\ call[g].pc = "idle"
    /\ cj[g].pc = "idle"
    /\ CanLock(mutex)
    /\ mutex' = Locked(mutex, g)
    /\ \E k \in Keys, v \in AccountIDs, d \in Durations :
          call' = [call EXCEPT ![g] = SetCalled(k, v, d)]
    /\ cj' = [cj EXCEPT ![g] = IdleCj]
    /\ UNCHANGED <<cache, now, lastSet, regVars, ex, widgetVars, pingVars>>

SetEntry_NoTTL(v, t, d) == [AccountID |-> v, ExpiresAt |-> t]

\* The entry Set writes: ExpiresAt: time.Now().Add(duration)
SetEntry(v, t, d) == [AccountID |-> v, ExpiresAt |-> t + d]

\* c.cache[username] = UserIDCache{AccountID, ExpiresAt}
SetStore(g) ==
    /\ call[g].pc = "set_store"
    /\ LET e == SetEntry(call[g].val, now, call[g].ttl)
       IN /\ cache' = MapPut(cache, call[g].key, e)
          /\ call' = [Touched(EndStable(call, g), g, call[g].key, e, call[g].ttl > 0)
                         EXCEPT ![g].pc = "set_unlock",
                                ![g].expect = Promised(call[g].val, now, call[g].ttl)]
    /\ lastSet' = NoSet
    /\ UNCHANGED <<mutex, now, regVars, jqlVars, widgetVars, pingVars>>

\* the deferred c.mutex.Unlock(); Set returns
SetUnlock(g) ==
    /\ call[g].pc = "set_unlock"
    /\ mutex' = Unlocked(mutex, g)
    /\ call' = [call EXCEPT ![g] = Returned("Set", call[g].key, <<"", FALSE>>)]
    /\ lastSet' = IF call[g].ttl > 0
                  THEN [NoSet EXCEPT !.key = call[g].key, !.entry = call[g].expect,
                                     !.conv = cj[g].pc = "cj_set"]
                  ELSE [NoSet EXCEPT !.key = call[g].key, !.dead = TRUE]
    /\ UNCHANGED <<cache, now, regVars, jqlVars, widgetVars, pingVars>>

\* The goroutine calls Clear(): c.mutex.Lock()
ClearLock(g) ==
    /\ call[g].pc = "idle"
    /\ cj[g].pc = "idle"
    /\ CanLock(mutex)
    /\ mutex' = Locked(mutex, g)
    /\ call' = [call EXCEPT ![g] = [IdleCall EXCEPT !.pc = "clear_sweep"]]
    /\ cj' = [cj EXCEPT ![g] = IdleCj]
    /\ UNCHANGED <<cache, now, lastSet, regVars, ex, widgetVars, pingVars>>

\* What the loop of Clear leaves: the entries that now.After(ExpiresAt) spares.
Swept(m, t) == [k \in {x \in DOMAIN m : ~Expired(t, m[x])} |-> m[k]]

\* now := time.Now(); for username, entry := range c.cache { ... delete ... }
ClearSweep(g) ==
    /\ call[g].pc = "clear_sweep"
    /\ cache' = Swept(cache, now)
    /\ call' = [Touched(EndStable(call, g), g, None, ZeroEntry, FALSE)
                   EXCEPT ![g].pc = "clear_unlock"]
    /\ lastSet' = NoSet
    /\ UNCHANGED <<mutex, now, regVars, jqlVars, widgetVars, pingVars>>

\* the deferred c.mutex.Unlock(); Clear returns
ClearUnlock(g) ==
    /\ call[g].pc = "clear_unlock"
    /\ mutex' = Unlocked(mutex, g)
    /\ call' = [call EXCEPT ![g] = Returned("Clear", None, <<"", FALSE>>)]
    /\ UNCHANGED <<cache, now, lastSet, regVars, jqlVars, widgetVars, pingVars>>

(* ------------------- LogQueryClients / RunQuery ----------------------- *)
\* The nil *azquery.LogsClient; the clients allocated are 1, 2, ...
NilClient == 0

\* var LogQueryClients map[string]*azquery.LogsClient: nil until made.
NilRegistry == [isNil |-> TRUE, m |-> <<>>]

\* LogQueryClients[id]: a nil map and an absent key both read as nil.
Lookup(r, id) == IF id \in DOMAIN r.m THEN r.m[id] ELSE NilClient

Stored_OnlyClients(r, id, client) ==
    IF client = NilClient THEN r
    ELSE [r EXCEPT !.m = [x \in DOMAIN r.m \cup {id} |-> IF x = id THEN client ELSE r.m[x]]]

\* LogQueryClients[id] = client
Stored(r, id, client) ==
    [r EXCEPT !.m = [x \in DOMAIN r.m \cup {id} |-> IF x = id THEN client ELSE r.m[x]]]

WorkspaceIDs == {"", "ws1"}
SubscriptionIDs == Subs \cup {""}

\* ret: "none" before the first call, then "ok" (a table and a nil error) or
\* the error the last call returned. had (history): the client the registry
\* held for the ID when the call started. ws, sub: the WorkspaceID and the
\* SubscriptionID of the call, kept after a return from the configuration
\* checks.
IdleRq == [pc |-> "idle", ws |-> "", sub |-> "", client |-> NilClient, ret |-> "none",
           early |-> FALSE, snap |-> NilRegistry, had |-> NilClient]

\* History kept for the properties: the clients constructed successfully for
\* each subscription ID, the IDs for which a factory invocation has completed,
\* and the factory invocations made by the callers whose read-locked check
\* came before any invocation for their ID had completed; requested: the IDs
\* for which a call has reached the look-up.
NoHist == [made |-> [k \in Subs |-> {}], completed |-> {},
           earlyCalls |-> [k \in Subs |-> 0], earlyFailed |-> {},
           requested |-> {}]

RqBegin_SubscriptionFirst(c) ==
    /\ rq[c].pc = "idle"
    /\ \E ws \in WorkspaceIDs, id \in SubscriptionIDs :
          /\ rq' = [rq EXCEPT ![c] =
                      IF id = ""
                      THEN [IdleRq EXCEPT !.ret = "subscription", !.ws = ws, !.sub = id]
                      ELSE IF ws = ""
                      THEN [IdleRq EXCEPT !.ret = "workspace", !.ws = ws, !.sub = id]
                      ELSE [IdleRq EXCEPT !.pc = "rq_rlock", !.ws = ws, !.sub = id,
                                          !.had = Lookup(LogQueryClients, id)]]
          /\ hist' = IF ws = "" \/ id = "" THEN hist
                     ELSE [hist EXCEPT !.requested = @ \cup {id}]
    /\ UNCHANGED <<LogQueryClients, clientsMutex, nextClient, cacheVars, jqlVars, widgetVars, pingVars>>

\* RunQuery(sess) is called; the two configuration checks of lines 35-41.
RqBegin(c) ==
    /\ rq[c].pc = "idle"
    /\ \E ws \in WorkspaceIDs, id \in SubscriptionIDs :
          /\ rq' = [rq EXCEPT ![c] =
                      IF ws = ""
                      THEN [IdleRq EXCEPT !.ret = "workspace", !.ws = ws, !.sub = id]
                      ELSE IF id = ""
                      THEN [IdleRq EXCEPT !.ret = "subscription", !.ws = ws, !.sub = id]
                      ELSE [IdleRq EXCEPT !.pc = "rq_rlock", !.ws = ws, !.sub = id,
                                          !.had = Lookup(LogQueryClients, id)]]
          /\ hist' = IF ws = "" \/ id = "" THEN hist
                     ELSE [hist EXCEPT !.requested = @ \cup {id}]
    /\ UNCHANGED <<LogQueryClients, clientsMutex, nextClient, cacheVars, jqlVars, widgetVars, pingVars>>

\* clientsMutex.RLock()
RqRLock(c) ==
    /\ rq[c].pc = "rq_rlock"
    /\ CanRLock(clientsMutex)
    /\ clientsMutex' = RLocked(clientsMutex, c)
    /\ rq' = [rq EXCEPT ![c].pc = "rq_check"]
    /\ UNCHANGED <<LogQueryClients, nextClient, hist, cacheVars, jqlVars, widgetVars, pingVars>>

RqCheck_AlwaysLock(c) ==
    /\ rq[c].pc = "rq_check"
    /\ clientsMutex' = RUnlocked(clientsMutex, c)
    /\ rq' = [rq EXCEPT ![c].client = Lookup(LogQueryClients, rq[c].sub),
                        ![c].pc = "rq_lock"]
    /\ UNCHANGED <<LogQueryClients, nextClient, hist, cacheVars, jqlVars, widgetVars, pingVars>>

\* client := LogQueryClients[id]; clientsMapExists := LogQueryClients != nil;
\* clientsMutex.RUnlock(); if !clientsMapExists || client == nil { ...
RqCheck(c) ==
    /\ rq[c].pc = "rq_check"
    /\ clientsMutex' = RUnlocked(clientsMutex, c)
    /\ LET client == Lookup(LogQueryClients, rq[c].sub)
           clientsMapExists == ~LogQueryClients.isNil
       IN rq' = [rq EXCEPT
                   ![c].client = client,
                   ![c].early = rq[c].sub \notin hist.completed
                                   /\ (~clientsMapExists \/ client = NilClient),
                   ![c].pc = IF ~clientsMapExists \/ client = NilClient
                             THEN "rq_lock" ELSE "rq_query"]
    /\ UNCHANGED <<LogQueryClients, nextClient, hist, cacheVars, jqlVars, widgetVars, pingVars>>

RqLock_NoLock(c) ==
    /\ rq[c].pc = "rq_lock"
    /\ rq' = [rq EXCEPT ![c].pc = "rq_recheck", ![c].snap = LogQueryClients]
    /\ UNCHANGED <<LogQueryClients, clientsMutex, nextClient, hist, cacheVars, jqlVars, widgetVars, pingVars>>

\* clientsMutex.Lock()
RqLock(c) ==
    /\ rq[c].pc = "rq_lock"
    /\ CanLock(clientsMutex)
    /\ clientsMutex' = Locked(clientsMutex, c)
    /\ rq' = [rq EXCEPT ![c].pc = "rq_recheck", ![c].snap = LogQueryClients]
    /\ UNCHANGED <<LogQueryClients, nextClient, hist, cacheVars, jqlVars, widgetVars, pingVars>>

\* if LogQueryClients == nil { LogQueryClients = make(...) }
Made(r) == IF r.isNil THEN [isNil |-> FALSE, m |-> <<>>] ELSE r

NeedsClient_Always(r, id) == TRUE

NeedsClient_Sticky(r, id) == id \notin DOMAIN r.m

\* if LogQueryClients[id] == nil, under the write lock
NeedsClient(r, id) == Lookup(r, id) = NilClient

\* lines 53-57: make the map if it is nil, then check the ID again
RqRecheck(c) ==
    /\ rq[c].pc = "rq_recheck"
    /\ LogQueryClients' = Made(LogQueryClients)
    /\ rq' = [rq EXCEPT ![c].pc = IF NeedsClient(Made(LogQueryClients), rq[c].sub)
                                  THEN "rq_create" ELSE "rq_take"]
    /\ UNCHANGED <<clientsMutex, nextClient, hist, cacheVars, jqlVars, widgetVars, pingVars>>

\* CreateLogsClient(sess, id): fails when sess.Azure.Credential is nil (cred is
\* FALSE), and otherwise returns what azquery.NewLogsClient returns, a new
\* client or an error.
CreateLogsClient(cred, fresh) ==
    IF ~cred THEN {[client |-> NilClient, err |-> TRUE]}
    ELSE {[client |-> fresh, err |-> FALSE], [client |-> NilClient, err |-> TRUE]}

\* LogQueryClients[id], err = CreateLogsClient(sess, id)
RqCreate(c) ==
    /\ rq[c].pc = "rq_create"
    /\ \E cred \in BOOLEAN : \E out \in CreateLogsClient(cred, nextClient) :
          /\ ~out.err => nextClient <= MaxClients
          /\ LogQueryClients' = Stored(LogQueryClients, rq[c].sub, out.client)
          /\ nextClient' = IF out.err THEN nextClient ELSE nextClient + 1
          /\ rq' = [rq EXCEPT ![c].pc = IF out.err THEN "rq_fail" ELSE "rq_take"]
          /\ hist' = [hist EXCEPT
                        !.made[rq[c].sub] = IF out.err THEN @ ELSE @ \cup {out.client},
                        !.completed = @ \cup {rq[c].sub},
                        !.earlyCalls[rq[c].sub] = IF rq[c].early THEN @ + 1 ELSE @,
                        !.earlyFailed = IF rq[c].early /\ out.err
                                        THEN @ \cup {rq[c].sub} ELSE @]
    /\ UNCHANGED <<clientsMutex, cacheVars, jqlVars, widgetVars, pingVars>>

RqFail_NoUnlock(c) ==
    /\ rq[c].pc = "rq_fail"
    /\ rq' = [rq EXCEPT ![c] = [IdleRq EXCEPT !.ret = "create"]]
    /\ UNCHANGED <<LogQueryClients, clientsMutex, nextClient, hist, cacheVars, jqlVars, widgetVars,
                   pingVars>>

\* if err != nil { clientsMutex.Unlock(); return nil, fmt.Errorf(...) }
RqFail(c) ==
    /\ rq[c].pc = "rq_fail"
    /\ clientsMutex' = Unlocked(clientsMutex, c)
    /\ rq' = [rq EXCEPT ![c] = [IdleRq EXCEPT !.ret = "create"]]
    /\ UNCHANGED <<LogQueryClients, nextClient, hist, cacheVars, jqlVars, widgetVars, pingVars>>

\* client = LogQueryClients[id]; clientsMutex.Unlock()
RqTake(c) ==
    /\ rq[c].pc = "rq_take"
    /\ clientsMutex' = Unlocked(clientsMutex, c)
    /\ rq' = [rq EXCEPT ![c].pc = "rq_query",
                        ![c].client = Lookup(LogQueryClients, rq[c].sub),
                        ![c].snap = NilRegistry]
    /\ UNCHANGED <<LogQueryClients, nextClient, hist, cacheVars, jqlVars, widgetVars, pingVars>>

\* What client.QueryWorkspace and the checks of its result come to: a table,
\* or one of the errors of lines 75-92.
QueryOutcomes == {"ok", "query"}

\* res, err := client.QueryWorkspace(...); ...; return &tableResp, nil
RqQuery(c) ==
    /\ rq[c].pc = "rq_query"
    /\ \E out \in QueryOutcomes :
          rq' = [rq EXCEPT ![c] = [IdleRq EXCEPT !.ret = out]]
    /\ UNCHANGED <<LogQueryClients, clientsMutex, nextClient, hist, cacheVars, jqlVars, widgetVars, pingVars>>

(* --------------------- extractAccountIDFromJQL ------------------------ *)
\* Strings are TLA+ strings; s[i:j] of Go is SubSeq(s, i + 1, j).
DQ == "\""
Alphabet == {DQ, "'", "a"}

RECURSIVE StringsUpTo(_)
StringsUpTo(n) ==
    IF n = 0 THEN {""}
    ELSE StringsUpTo(n - 1) \cup {s \o c : s \in StringsUpTo(n - 1), c \in Alphabet}

CharAt(s, i) == SubSeq(s, i, i)
Occurrences(s, ch) == {i \in 1..Len(s) : CharAt(s, i) = ch}

\* strings.Index(s, ch): the 0-based index of the first ch, -1 if there is none
Index(s, ch) ==
    IF Occurrences(s, ch) = {} THEN 0 - 1
    ELSE (CHOOSE i \in Occurrences(s, ch) : \A j \in Occurrences(s, ch) : i <= j) - 1

LastIndex_First(s, ch) == Index(s, ch)

\* strings.LastIndex(s, ch): the 0-based index of the last ch, -1 if there is none
LastIndex(s, ch) ==
    IF Occurrences(s, ch) = {} THEN 0 - 1
    ELSE (CHOOSE i \in Occurrences(s, ch) : \A j \in Occurrences(s, ch) : i >= j) - 1

extractAccountIDFromJQL(jql) ==
    LET start == Index(jql, DQ)
        end == LastIndex(jql, DQ)
    IN IF start = 0 - 1 THEN ""
       ELSE IF end <= start THEN ""
       ELSE SubSeq(jql, (start + 1) + 1, end)

IdleEx == [pc |-> "idle", jql |-> "", accountID |-> ""]

\* extractAccountIDFromJQL(jql) runs to its return.
ExtractCall ==
    /\ ex.pc = "called"
    /\ ex' = [ex EXCEPT !.pc = "returned", !.accountID = extractAccountIDFromJQL(ex.jql)]
    /\ UNCHANGED <<cacheVars, regVars, cj, widgetVars, pingVars>>

(* -------------------- ConvertJQLWithUsername -------------------------- *)
\* The clock counts minutes: 10*time.Minute
CacheTTL == 10

Sprintf_Bare(accountID) == accountID

\* fmt.Sprintf("assignee = \"%s\"", accountID)
Sprintf(accountID) == "assignee = \"" \o accountID \o "\""

\* The converted queries the JIRA server may answer with.
ConvertedQueries ==
    {Sprintf(a) : a \in AccountIDs}
       \cup {"assignee = malformed", "assignee = 'acct1'", "assignee = \"incomplete",
             "assignee in (\"acct1\")"}

\* What jiraPostRequest and utils.ParseJSON can come to: an error of the request
\* (transport, non-2xx status), a body that does not parse, or a parsed
\* JQLConversionResponse with its ConvertedQuery strings.
Responses ==
    {[NoResp EXCEPT !.err = e] : e \in {"transport", "status"}}
       \cup {NoResp}
       \cup {[NoResp EXCEPT !.parsed = TRUE, !.QueryStrings = qs] :
                qs \in {<<>>} \cup {<<q>> : q \in ConvertedQueries}
                         \cup {<<"assignee = malformed", Sprintf("acct2")>>}}

CjReturned(j, result, err) ==
    [IdleCj EXCEPT !.username = j.username, !.ret = <<result, err>>,
                   !.posts = j.posts, !.evicted = j.evicted]

\* History kept for the properties. The string returned by the call j that
\* ended just before this call for username u, when j was for u too, missed
\* and stored the account ID.
Populated(j, u) ==
    IF j.username = u /\ j.posts = 1 /\ j.ret[1] # "" /\ j.ret[2] = NilErr
    THEN j.ret[1]
    ELSE None

\* The goroutine calls ConvertJQLWithUsername(username), which calls
\* userIDCache.Get(username): c.mutex.RLock()
CjBegin(g) ==
    /\ call[g].pc = "idle"
    /\ cj[g].pc = "idle"
    /\ CanRLock(mutex)
    /\ mutex' = RLocked(mutex, g)
    /\ \E u \in Keys :
          /\ call' = [call EXCEPT ![g] = GetCalled(u)]
          /\ cj' = [cj EXCEPT ![g] = [IdleCj EXCEPT !.pc = "cj_get", !.username = u,
                                                    !.pre = cache,
                                                    !.miss = Populated(cj[g], u)]]
    /\ UNCHANGED <<cache, now, lastSet, regVars, ex, widgetVars, pingVars>>

\* if accountID, found := userIDCache.Get(username); found { return Sprintf... }
CjGot(g) ==
    /\ cj[g].pc = "cj_get"
    /\ call[g].pc = "idle"
    /\ cj' = [cj EXCEPT ![g] =
                 IF call[g].ret[2]
                 THEN CjReturned(cj[g], Sprintf(call[g].ret[1]), NilErr)
                 ELSE [cj[g] EXCEPT !.pc = "cj_post",
                                    !.evicted = /\ cj[g].username \in DOMAIN cj[g].pre
                                                /\ cj[g].username \notin DOMAIN cache]]
    /\ UNCHANGED <<cacheVars, regVars, ex, widgetVars, pingVars>>

\* resp, err := widget.jiraPostRequest(...); if err != nil { return "", err }
CjPost(g) ==
    /\ cj[g].pc = "cj_post"
    /\ \E r \in Responses :
          cj' = [cj EXCEPT ![g] =
                   IF r.err # "nil"
                   THEN CjReturned([cj[g] EXCEPT !.posts = @ + 1], "", Err(r.err, ""))
                   ELSE [cj[g] EXCEPT !.pc = "cj_parse", !.posts = @ + 1, !.resp = r]]
    /\ UNCHANGED <<cacheVars, regVars, ex, widgetVars, pingVars>>

ExtractFailed_Never(accountID) == FALSE

\* if accountID == ""
ExtractFailed(accountID) == accountID = ""

\* lines 133-150: utils.ParseJSON, the test for an empty result, and the
\* extraction of the account ID from the first converted query
CjParse(g) ==
    /\ cj[g].pc = "cj_parse"
    /\ LET r == cj[g].resp
           convertedQuery == r.QueryStrings[1]
           accountID == extractAccountIDFromJQL(convertedQuery)
       IN cj' = [cj EXCEPT ![g] =
                   IF ~r.parsed THEN CjReturned(cj[g], "", Err("parse", ""))
                   ELSE IF Len(r.QueryStrings) = 0
                   THEN CjReturned(cj[g], "", Err("noresult", cj[g].username))
                   ELSE IF ExtractFailed(accountID)
                   THEN CjReturned(cj[g], "", Err("extract", convertedQuery))
                   ELSE [cj[g] EXCEPT !.pc = "cj_cache", !.resp = NoResp,
                                      !.accountID = accountID,
                                      !.convertedQuery = convertedQuery]]
    /\ UNCHANGED <<cacheVars, regVars, ex, widgetVars, pingVars>>

\* userIDCache.Set(username, accountID, 10*time.Minute): c.mutex.Lock()
CjSetLock(g) ==
    /\ cj[g].pc = "cj_cache"
    /\ CanLock(mutex)
    /\ mutex' = Locked(mutex, g)
    /\ call' = [call EXCEPT ![g] = SetCalled(cj[g].username, cj[g].accountID, CacheTTL)]
    /\ cj' = [cj EXCEPT ![g].pc = "cj_set"]
    /\ UNCHANGED <<cache, now, lastSet, regVars, ex, widgetVars, pingVars>>

\* Set has returned: return convertedQuery, nil
CjReturn(g) ==
    /\ cj[g].pc = "cj_set"
    /\ call[g].pc = "idle"
    /\ cj' = [cj EXCEPT ![g] =
                 CjReturned(cj[g], cj[g].convertedQuery, NilErr)]
    /\ UNCHANGED <<cacheVars, regVars, ex, widgetVars, pingVars>>

(* ========================= azurelogs.Widget =========================== *)
\* The widget's fields are written by three kinds of goroutines without any
\* lock: the one that calls Refresh, the drawing goroutine that runs the
\* queued content() closures, and the goroutines running fetchDataAsync.
\* One action is one access to a field of the widget.
Fetchers == 1..MaxFetches

Queryfiles == {"", "query.kql"}

NilTable == [isNil |-> TRUE, Header |-> <<>>]
EmptyTable == [isNil |-> FALSE, Header |-> <<>>]
LogTable == [isNil |-> FALSE, Header |-> <<"TimeGenerated", "Message">>]

NilError == "nil"
InitError == "failed to initialize Azure session"
QueryError == "failed to execute Azure query"
StructureError == "no table structure returned from query"

\* What Init and RunQuery hand to fetchDataAsync: an error, or a table.
FetchResults ==
    {[err |-> e, tableResp |-> NilTable] : e \in {InitError, QueryError}}
        \cup {[err |-> NilError, tableResp |-> t] : t \in {NilTable, EmptyTable, LogTable}}

NewWidget(queryfile, disabled) ==
    [Queryfile |-> queryfile, disabled |-> disabled, loading |-> FALSE,
     lastError |-> NilError, dataLoaded |-> FALSE, tableData |-> NilTable]

IdleRefresh == [pc |-> "idle"]
NoContent == [content |-> None, wrap |-> FALSE]
IdleDraw == [pc |-> "idle", queued |-> 0, ret |-> NoContent]
IdleFetch == [pc |-> "idle", err |-> NilError, tableResp |-> NilTable]

\* view.TextWidget.Disabled: the widget is switched off in its settings.
Disabled(w) == w.disabled

\* view.TextWidget.Redraw(widget.content): queues one run of content() on
\* the drawing goroutine.
CanRedraw == draw.queued < MaxRedraws
Redraw(d) == [d EXCEPT !.queued = @ + 1]

InFlight == {f \in Fetchers : fetch[f].pc # "idle"}

\* Refresh, lines 48-53.
RefreshBegin ==
    /\ refresh.pc = "idle"
    /\ IF Disabled(widget)
       THEN UNCHANGED <<widget, refresh>>
       ELSE /\ widget' = [widget EXCEPT !.loading = FALSE]
            /\ refresh' = [refresh EXCEPT !.pc = "r_error"]
    /\ UNCHANGED <<draw, fetch, cacheVars, regVars, jqlVars, pingVars>>

\* Refresh, line 54.
RefreshError ==
    /\ refresh.pc = "r_error"
    /\ widget' = [widget EXCEPT !.lastError = NilError]
    /\ refresh' = [refresh EXCEPT !.pc = "r_loaded"]
    /\ UNCHANGED <<draw, fetch, cacheVars, regVars, jqlVars, pingVars>>

\* Refresh, line 55.
RefreshLoaded ==
    /\ refresh.pc = "r_loaded"
    /\ widget' = [widget EXCEPT !.dataLoaded = FALSE]
    /\ refresh' = [refresh EXCEPT !.pc = "r_table"]
    /\ UNCHANGED <<draw, fetch, cacheVars, regVars, jqlVars, pingVars>>

\* Refresh, lines 56-58.
RefreshTable ==
    /\ refresh.pc = "r_table"
    /\ CanRedraw
    /\ widget' = [widget EXCEPT !.tableData = NilTable]
    /\ draw' = Redraw(draw)
    /\ refresh' = [refresh EXCEPT !.pc = "idle"]
    /\ UNCHANGED <<fetch, cacheVars, regVars, jqlVars, pingVars>>

ConfigErrorText == "[red]Error: queryFile must be configured in widget settings[white]"
ErrorText(err) == "[red]Error: " \o err \o "[white] [dim]Press 'r' to retry[white]"
NoTableText == "[red]Error: No table data available[white]"
LoadingText == "[yellow]Loading Azure Logs data...[white]"
TableText == "TimeGenerated Message"

\* content(), lines 249-259, run by the drawing goroutine.
ContentBegin ==
    /\ draw.pc = "idle"
    /\ draw.queued > 0
    /\ draw' = IF widget.Queryfile = ""
               THEN [draw EXCEPT !.queued = @ - 1,
                                 !.ret = [content |-> ConfigErrorText, wrap |-> FALSE]]
               ELSE IF widget.lastError # NilError
               THEN [draw EXCEPT !.queued = @ - 1,
                                 !.ret = [content |-> ErrorText(widget.lastError), wrap |-> TRUE]]
               ELSE [draw EXCEPT !.queued = @ - 1, !.pc = "c_loaded", !.ret = NoContent]
    /\ UNCHANGED <<widget, refresh, fetch, cacheVars, regVars, jqlVars, pingVars>>

\* content(), line 262.
ContentLoaded ==
    /\ draw.pc = "c_loaded"
    /\ draw' = [draw EXCEPT !.pc = IF widget.dataLoaded THEN "c_render" ELSE "c_loading"]
    /\ UNCHANGED <<widget, refresh, fetch, cacheVars, regVars, jqlVars, pingVars>>

renderTable(w) ==
    IF w.tableData.isNil
    THEN [content |-> NoTableText, wrap |-> TRUE]
    ELSE [content |-> TableText, wrap |-> FALSE]

\* content(), line 263.
ContentRender ==
    /\ draw.pc = "c_render"
    /\ draw' = [draw EXCEPT !.pc = "idle", !.ret = renderTable(widget)]
    /\ UNCHANGED <<widget, refresh, fetch, cacheVars, regVars, jqlVars, pingVars>>

StartsFetch_Always(w) == TRUE

StartsFetch(w) == ~w.loading

\* content(), lines 267-276.
ContentLoading ==
    /\ draw.pc = "c_loading"
    /\ IF StartsFetch(widget)
       THEN /\ widget' = [widget EXCEPT !.loading = TRUE]
            /\ \E f \in Fetchers \ InFlight :
                  /\ \A e \in Fetchers \ InFlight : f <= e
                  /\ fetch' = [fetch EXCEPT ![f] = [IdleFetch EXCEPT !.pc = "f_run"]]
       ELSE UNCHANGED <<widget, fetch>>
    /\ draw' = [draw EXCEPT !.pc = "idle", !.ret = [content |-> LoadingText, wrap |-> FALSE]]
    /\ UNCHANGED <<refresh, cacheVars, regVars, jqlVars, pingVars>>

\* fetchDataAsync, lines 64-81: the session, the query and the check of the
\* table's structure.
FetchRun(f) ==
    /\ fetch[f].pc = "f_run"
    /\ \E r \in FetchResults :
          fetch' = [fetch EXCEPT ![f] =
                      IF r.err # NilError
                      THEN [pc |-> "e_error", err |-> r.err, tableResp |-> NilTable]
                      ELSE IF r.tableResp.isNil \/ Len(r.tableResp.Header) = 0
                      THEN [pc |-> "e_error", err |-> StructureError, tableResp |-> NilTable]
                      ELSE [pc |-> "f_table", err |-> NilError, tableResp |-> r.tableResp]]
    /\ UNCHANGED <<widget, refresh, draw, cacheVars, regVars, jqlVars, pingVars>>

\* fetchDataAsync, line 84.
FetchTable(f) ==
    /\ fetch[f].pc = "f_table"
    /\ widget' = [widget EXCEPT !.tableData = fetch[f].tableResp]
    /\ fetch' = [fetch EXCEPT ![f] = [IdleFetch EXCEPT !.pc = "f_loaded"]]
    /\ UNCHANGED <<refresh, draw, cacheVars, regVars, jqlVars, pingVars>>

\* fetchDataAsync, line 85.
FetchLoaded(f) ==
    /\ fetch[f].pc = "f_loaded"
    /\ widget' = [widget EXCEPT !.dataLoaded = TRUE]
    /\ fetch' = [fetch EXCEPT ![f].pc = "f_loading"]
    /\ UNCHANGED <<refresh, draw, cacheVars, regVars, jqlVars, pingVars>>

\* fetchDataAsync, lines 86-88.
FetchLoading(f) ==
    /\ fetch[f].pc = "f_loading"
    /\ CanRedraw
    /\ widget' = [widget EXCEPT !.loading = FALSE]
    /\ draw' = Redraw(draw)
    /\ fetch' = [fetch EXCEPT ![f] = IdleFetch]
    /\ UNCHANGED <<refresh, cacheVars, regVars, jqlVars, pingVars>>

\* setError, line 92.
SetErrorStore(f) ==
    /\ fetch[f].pc = "e_error"
    /\ widget' = [widget EXCEPT !.lastError = fetch[f].err]
    /\ fetch' = [fetch EXCEPT ![f] = [IdleFetch EXCEPT !.pc = "e_loading"]]
    /\ UNCHANGED <<refresh, draw, cacheVars, regVars, jqlVars, pingVars>>

\* setError, lines 93-95.
SetErrorLoading(f) ==
    /\ fetch[f].pc = "e_loading"
    /\ CanRedraw
    /\ widget' = [widget EXCEPT !.loading = FALSE]
    /\ draw' = Redraw(draw)
    /\ fetch' = [fetch EXCEPT ![f] = IdleFetch]
    /\ UNCHANGED <<refresh, cacheVars, regVars, jqlVars, pingVars>>

FetchStep(f) ==
    \/ FetchRun(f) \/ FetchTable(f) \/ FetchLoaded(f) \/ FetchLoading(f)
    \/ SetErrorStore(f) \/ SetErrorLoading(f)

(* ============================ ping.Widget ============================= *)
\* doPings starts one goroutine per host and waits for all of them on a
\* sync.WaitGroup.  ping.g[i] is the goroutine started for hosts[i]; its
\* field result keeps what its pinger did, for the properties.
HostIndexes == 1..NumHosts

buildhosts == [i \in HostIndexes |-> [Hostname |-> "host" \o ToString(i), Up |-> FALSE]]

NoPinger == [pc |-> "none", Hostname |-> "", result |-> None]
IdlePing == [pc |-> "idle", i |-> 1, wg |-> 0, g |-> [i \in HostIndexes |-> NoPinger]]

\* What the pinger of one host does: probing.NewPinger fails, pinger.Run
\* fails, or the run ends with or without a received packet.
PingResults == {"no_pinger", "run_error", "received", "lost"}

\* Refresh, line 138: the call of doPings; `var wg sync.WaitGroup`.
DoPingsBegin ==
    /\ ping.pc = "idle"
    /\ ping' = [IdlePing EXCEPT !.pc = "loop"]
    /\ UNCHANGED <<hosts, cacheVars, regVars, jqlVars, widgetVars>>

\* doPings, lines 108-132: one turn of the loop, up to the go statement.
DoPingsSpawn ==
    /\ ping.pc = "loop"
    /\ LET idx == ping.i
       IN /\ hosts' = [hosts EXCEPT ![idx].Up = FALSE]
          /\ ping' = [ping EXCEPT !.wg = @ + 1,
                                  !.g[idx] = [pc |-> "run", Hostname |-> hosts[idx].Hostname,
                                              result |-> None],
                                  !.i = idx + 1,
                                  !.pc = IF idx = NumHosts THEN "wait" ELSE "loop"]
    /\ UNCHANGED <<cacheVars, regVars, jqlVars, widgetVars>>

\* The goroutine of hosts[idx], lines 114-129.  log.Fatalf ends the process.
PingerRun(idx) ==
    /\ ping.pc # "exited"
    /\ ping.g[idx].pc = "run"
    /\ \E r \in PingResults :
          /\ ping' = IF r = "run_error"
                     THEN [ping EXCEPT !.pc = "exited", !.g[idx].result = r]
                     ELSE [ping EXCEPT !.g[idx].pc = "deferred", !.g[idx].result = r]
          /\ hosts' = CASE r = "received" -> [hosts EXCEPT ![idx].Up = TRUE]
                        [] r = "lost" -> [hosts EXCEPT ![idx].Up = FALSE]
                        [] OTHER -> hosts
    /\ UNCHANGED <<cacheVars, regVars, jqlVars, widgetVars>>

\* The goroutine of hosts[idx], line 113: the deferred wg.Done().
PingerDone(idx) ==
    /\ ping.pc # "exited"
    /\ ping.g[idx].pc = "deferred"
    /\ ping' = [ping EXCEPT !.wg = @ - 1, !.g[idx].pc = "done"]
    /\ UNCHANGED <<hosts, cacheVars, regVars, jqlVars, widgetVars>>

Waited_NoWait(p) == TRUE

\* sync.WaitGroup.Wait returns when the counter is zero.
Waited(p) == p.wg = 0

\* doPings, line 134, and the return to Refresh.
DoPingsWait ==
    /\ ping.pc = "wait"
    /\ Waited(ping)
    /\ ping' = [ping EXCEPT !.pc = "idle"]
    /\ UNCHANGED <<hosts, cacheVars, regVars, jqlVars, widgetVars>>

NextPing ==
    \/ DoPingsBegin \/ DoPingsSpawn \/ DoPingsWait
    \/ \E idx \in HostIndexes : PingerRun(idx) \/ PingerDone(idx)

(* ------------------------------ the clock ----------------------------- *)
Tick ==
    /\ now < MaxTime
    /\ now' = now + 1
    /\ UNCHANGED <<cache, mutex, call, lastSet, regVars, jqlVars, widgetVars, pingVars>>

\* The state before any call, except for ex.
InitRest ==
    /\ cache = <<>>
    /\ mutex = FreeMutex
    /\ now = 0
    /\ call = [g \in Procs |-> IdleCall]
    /\ lastSet = NoSet
    /\ LogQueryClients = NilRegistry
    /\ clientsMutex = FreeMutex
    /\ nextClient = 1
    /\ rq = [c \in Callers |-> IdleRq]
    /\ hist = NoHist
    /\ cj = [g \in Procs |-> IdleCj]
    /\ refresh = IdleRefresh
    /\ draw = IdleDraw
    /\ fetch = [f \in Fetchers |-> IdleFetch]
    /\ hosts = buildhosts
    /\ ping = IdlePing

Init == InitRest /\ ex = IdleEx /\ widget = NewWidget("query.kql", FALSE)

\* The widget is built from any settings.
InitWidget ==
    /\ InitRest
    /\ ex = IdleEx
    /\ \E q \in Queryfiles, d \in BOOLEAN : widget = NewWidget(q, d)

\* extractAccountIDFromJQL is called with any string of the bounded alphabet.
InitExtract ==
    /\ InitRest
    /\ \E s \in StringsUpTo(MaxLen) : ex = [IdleEx EXCEPT !.pc = "called", !.jql = s]
    /\ widget = NewWidget("query.kql", FALSE)

CacheStep(g) ==
    \/ GetRLock(g) \/ GetLookup(g) \/ GetCheck(g)
    \/ GetLock(g) \/ GetDelete(g) \/ GetUnlock(g)
    \/ SetLock(g) \/ SetStore(g) \/ SetUnlock(g)
    \/ ClearLock(g) \/ ClearSweep(g) \/ ClearUnlock(g)

\* Several goroutines share the cache.
Next ==
    \/ \E g \in Procs : CacheStep(g)
    \/ Tick

Spec == Init /\ [][Next]_vars

\* One goroutine alone calls into the cache (the unit tests of the cache).
NextSeq ==
    \/ \E g \in SeqProcs : CacheStep(g)
    \/ Tick

SpecSeq == Init /\ [][NextSeq]_vars

\* The goroutines that run RunQuery share the registry.
NextReg ==
    \E c \in Callers :
        \/ RqBegin(c) \/ RqRLock(c) \/ RqCheck(c) \/ RqLock(c) \/ RqRecheck(c)
        \/ RqCreate(c) \/ RqFail(c) \/ RqTake(c) \/ RqQuery(c)

SpecReg == Init /\ [][NextReg]_vars

NextExtract == ExtractCall

CjStep(g) ==
    \/ CjBegin(g) \/ CjGot(g) \/ CjPost(g) \/ CjParse(g) \/ CjSetLock(g) \/ CjReturn(g)

\* One goroutine calls ConvertJQLWithUsername and, between these calls, the
\* cache (the unit tests of the client).
NextJQL ==
    \/ \E g \in SeqProcs : CacheStep(g) \/ CjStep(g)
    \/ Tick

SpecJQL == Init /\ [][NextJQL]_vars

SpecExtract == InitExtract /\ [][NextExtract]_vars

\* Refresh, the drawing goroutine and the fetches of one azurelogs widget.
NextWidget ==
    \/ RefreshBegin \/ RefreshError \/ RefreshLoaded \/ RefreshTable
    \/ ContentBegin \/ ContentLoaded \/ ContentRender \/ ContentLoading
    \/ \E f \in Fetchers : FetchStep(f)

SpecWidget == InitWidget /\ [][NextWidget]_vars

\* The refreshes of one ping widget, one after the other.
SpecPing == Init /\ [][NextPing]_vars

(* ------------------ the two mutexes, fairly scheduled ----------------- *)
RqStep(c) ==
    \/ RqBegin(c) \/ RqRLock(c) \/ RqCheck(c) \/ RqLock(c) \/ RqRecheck(c)
    \/ RqCreate(c) \/ RqFail(c) \/ RqTake(c) \/ RqQuery(c)

\* The cache and its mutex share nothing with the registry and its mutex.
\* Two goroutines contend for one of the two mutexes: for the cache's as long
\* as RunQuery was never called, for the registry's as long as the cache was
\* never called.  The clock stands still; a Set with a negative duration
\* stores an entry that is expired at once.
RegistryAtRest == regVars = <<NilRegistry, FreeMutex, 1, [c \in Callers |-> IdleRq], NoHist>>
CacheAtRest == cacheVars = <<<<>>, FreeMutex, 0, [g \in Procs |-> IdleCall], NoSet>>

NextLocks ==
    \/ RegistryAtRest /\ \E g \in Procs : CacheStep(g)
    \/ CacheAtRest /\ \E c \in Procs : RqStep(c)

\* The steps of a call that need no lock: the scheduler runs a goroutine
\* that can run, and the factory CreateLogsClient terminates.
CacheRuns(g) ==
    \/ GetLookup(g) \/ GetCheck(g) \/ GetDelete(g) \/ GetUnlock(g)
    \/ SetStore(g) \/ SetUnlock(g) \/ ClearSweep(g) \/ ClearUnlock(g)

RqRuns(c) == RqCheck(c) \/ RqRecheck(c) \/ RqCreate(c) \/ RqFail(c) \/ RqTake(c)

\* sync.RWMutex hands a lock that is released again and again to every
\* goroutine that waits for it.
FairLocks ==
    \A g \in Procs :
        /\ WF_vars(CacheRuns(g) \/ RqRuns(g))
        /\ SF_vars(GetLock(g) \/ RqRLock(g) \/ RqLock(g))

SpecLocks == Init /\ [][NextLocks]_vars /\ FairLocks

(* ====================== properties of the cache ======================= *)
\* Goroutine g takes a step of its own (its program counter moves).
Acts(g) == call'[g].pc # call[g].pc

\* g leaves the test of Get in this step: it returns or goes on to delete.
GetDecides(g) ==
    \/ call[g].pc = "get_lookup" /\ call'[g].pc = "idle"
    \/ call[g].pc = "get_check" /\ call'[g].pc # "get_check"

GetReturns(g, r) == call'[g].pc = "idle" /\ call'[g].last = "Get" /\ call'[g].ret = r

StrictlyFresh(k) == k \in DOMAIN cache /\ cache[k].ExpiresAt > now

\* C1: Get(k) returns (value, true) if and only if an entry exists for k and its
\* ExpiresAt is strictly after the current time; in every other case (absent
\* key, ExpiresAt at or before now) it returns ("", false).
C1_GetHitIffStrictlyFresh ==
    [][\A g \in Procs :
         LET k == call[g].key
         IN /\ GetDecides(g) /\ StrictlyFresh(k)
                  => GetReturns(g, <<cache[k].AccountID, TRUE>>)
            /\ GetDecides(g) /\ ~StrictlyFresh(k)
                  => \/ GetReturns(g, <<"", FALSE>>)
                     \/ call'[g].pc = "get_lock"
            /\ call[g].pc = "get_unlock" /\ Acts(g)
                  => GetReturns(g, <<"", FALSE>>)]_vars

\* C2: under every interleaving, no Get returns found = true for an entry whose
\* ExpiresAt is in the past when Get tests it (a hit returns the account ID of
\* the stored entry, which is not past), and a Get that found its entry
\* expired returns only after its own delete step, with the key absent.
C2_NoStaleHitAndPurge ==
    /\ [](\A g \in Procs :
            call[g].pc = "get_unlock"
               => call[g].key \notin DOMAIN cache /\ mutex.writer = g)
    /\ [][\A g \in Procs :
            /\ (Acts(g) /\ call'[g].pc = "idle" /\ call'[g].last = "Get"
                   /\ call'[g].ret[2])
                  => /\ call[g].pc = "get_check"
                     /\ call[g].key \in DOMAIN cache
                     /\ cache[call[g].key] = call[g].entry
                     /\ ~(call[g].entry.ExpiresAt < now)
                     /\ call'[g].ret[1] = call[g].entry.AccountID
            /\ (call[g].pc = "get_check" /\ Acts(g) /\ call[g].entry.ExpiresAt < now)
                  => call'[g].pc = "get_lock"
            /\ (call[g].pc = "get_lock" /\ Acts(g)) => call'[g].pc = "get_delete"
            /\ (call[g].pc = "get_delete" /\ Acts(g))
                  => call'[g].pc = "get_unlock" /\ call[g].key \notin DOMAIN cache'
            /\ (call[g].pc = "get_unlock" /\ Acts(g))
                  => GetReturns(g, <<"", FALSE>>) /\ call[g].key \notin DOMAIN cache']_vars

\* A Get has found its entry expired and deleted it while another Get of the
\* same key, which found the same thing, waits for the write lock.
C2_Witness ==
    \E g, h \in Procs :
        /\ g # h
        /\ call[g].pc = "get_unlock"
        /\ call[h].pc = "get_lock"
        /\ call[h].key = call[g].key

\* C3: if, between a Get's release of the read lock on an expired entry and its
\* acquisition of the write lock, another goroutine completes Set(k, v2, d)
\* with d > 0, the Get's delete is a no-op and the map still holds (k, v2);
\* and deleting a key that is already absent changes nothing.
C3_DeleteSparesRefreshedEntry ==
    /\ [](\A g \in Procs :
            (call[g].pc = "get_unlock" /\ call[g].refreshed # ZeroEntry)
               => /\ call[g].key \in DOMAIN cache
                  /\ cache[call[g].key] = call[g].refreshed)
    /\ [][\A g \in Procs :
            (call[g].pc = "get_delete" /\ Acts(g) /\ call[g].key \notin DOMAIN cache)
               => cache' = cache]_vars

\* C7: a Get(k) that begins after a Set(k, v, d), d > 0, has returned, that
\* tests before the entry's expiry and with no later Set or Clear on the
\* cache, returns (v, true) whatever other Gets run concurrently.
C7_GetObservesCompletedSet ==
    [][\A g \in Procs :
         (GetDecides(g) /\ call[g].expect # ZeroEntry
             /\ now < call[g].expect.ExpiresAt)
            => GetReturns(g, <<call[g].expect.AccountID, TRUE>>)]_vars

\* C9: Set(k, v, d), d > 0, followed by Get(k) with nothing stored or swept in
\* between returns (v, true) while time has not passed the expiry; once time
\* has advanced past it, Get(k) misses and returns ("", false).
C9_SetThenGet ==
    [][\A g \in SeqProcs :
         /\ (GetDecides(g) /\ call[g].expect # ZeroEntry
                /\ now <= call[g].expect.ExpiresAt)
               => GetReturns(g, <<call[g].expect.AccountID, TRUE>>)
         /\ (GetDecides(g) /\ call[g].expect # ZeroEntry
                /\ now > call[g].expect.ExpiresAt)
               => \/ GetReturns(g, <<"", FALSE>>)
                  \/ call'[g].pc = "get_lock"
         /\ (call[g].pc = "get_unlock" /\ Acts(g))
               => GetReturns(g, <<"", FALSE>>)]_vars

\* The goroutine set k with a positive duration, time passed the expiry, and
\* its Get(k) has returned the miss.
C9_Witness ==
    \E g \in SeqProcs :
        /\ call[g].pc = "idle" /\ call[g].last = "Get"
        /\ lastSet.key = call[g].key
        /\ lastSet.entry # ZeroEntry
        /\ now > lastSet.entry.ExpiresAt
        /\ call[g].ret = <<"", FALSE>>
        /\ call[g].key \notin DOMAIN cache

\* C10: the delete step of a Get on an expired key removes exactly that key
\* (every other key keeps its entry), no other step of a Get changes the map,
\* and the key stays absent until a Set of that key stores it again.
C10_PurgeFrame ==
    [][/\ \A g \in Procs :
            /\ (call[g].pc = "get_delete" /\ Acts(g))
                  => /\ DOMAIN cache' = DOMAIN cache \ {call[g].key}
                     /\ \A k \in DOMAIN cache' : cache'[k] = cache[k]
            /\ (call[g].pc \in {"get_lookup", "get_check", "get_lock", "get_unlock"}
                   /\ Acts(g))
                  => cache' = cache
       /\ \A k \in Keys :
            (k \notin DOMAIN cache /\ k \in DOMAIN cache')
               => \E g \in Procs : call[g].pc = "set_store" /\ call[g].key = k /\ Acts(g)]_vars

\* A Get has deleted its expired key while the other key is still stored.
C10_Witness ==
    \E g \in Procs :
        /\ call[g].pc = "get_unlock"
        /\ call[g].key \notin DOMAIN cache
        /\ DOMAIN cache # {}

\* C11: Set(k, v, ttl) with ttl <= 0 (zero included) is not an error and stores
\* the entry with ExpiresAt = now + ttl; that entry is expired at once: a
\* Get(k) at the same instant or later, with nothing stored or swept in
\* between, returns ("", false).
C11_NonPositiveTTLExpired ==
    [][\A g \in Procs :
         /\ (call[g].pc = "set_store" /\ Acts(g) /\ call[g].ttl <= 0)
               => /\ call'[g].pc = "set_unlock"
                  /\ call[g].key \in DOMAIN cache'
                  /\ cache'[call[g].key] =
                        [AccountID |-> call[g].val, ExpiresAt |-> now + call[g].ttl]
         /\ (GetDecides(g) /\ call[g].dead)
               => \/ GetReturns(g, <<"", FALSE>>)
                  \/ call'[g].pc = "get_lock"
         /\ (call[g].pc = "get_unlock" /\ Acts(g))
               => GetReturns(g, <<"", FALSE>>)]_vars

\* C12: Clear leaves the map equal to its pre-state restricted to the entries
\* whose ExpiresAt is strictly after now: every entry with ExpiresAt at or
\* before now is removed and the unexpired entries are untouched.
C12_ClearKeepsStrictlyFresh ==
    [][\A g \in Procs :
         (call[g].pc = "clear_sweep" /\ Acts(g))
            => /\ DOMAIN cache' = {k \in DOMAIN cache : cache[k].ExpiresAt > now}
               /\ \A k \in DOMAIN cache' : cache'[k] = cache[k]]_vars

\* The program counters at which a goroutine holds the read lock, and those at
\* which it holds the write lock, of the cache.
ReadSection == {"get_lookup", "get_check"}
WriteSection == {"get_delete", "get_unlock", "set_store", "set_unlock",
                 "clear_sweep", "clear_unlock"}

\* C22: lock discipline of the cache. A Get can take the shared lock while
\* other Gets hold it, so a read never blocks a read; Set and Clear hold the
\* exclusive lock for their whole body, and while a goroutine is inside one no
\* other call is at a step that reads or writes the map; the map changes only
\* in a step of the goroutine that holds the exclusive lock.
C22_LockDiscipline ==
    /\ [](\A g \in Procs :
            /\ (call[g].pc = "idle" /\ cj[g].pc = "idle" /\ mutex.readers # {})
                  => ENABLED GetRLock(g)
            /\ call[g].pc \in ReadSection <=> g \in mutex.readers
            /\ call[g].pc \in WriteSection <=> mutex.writer = g
            /\ call[g].pc \in WriteSection
                  => /\ mutex.readers = {}
                     /\ \A h \in Procs \ {g} :
                           call[h].pc \notin ReadSection \cup WriteSection)
    /\ [][cache' # cache
            => \E g \in Procs :
                  /\ mutex.writer = g /\ mutex'.writer = g
                  /\ Acts(g)
                  /\ call[g].pc \in {"get_delete", "set_store", "clear_sweep"}]_vars

\* Both goroutines are inside Get with the shared lock held at the same time.
C22_Witness ==
    /\ mutex.readers = Procs
    /\ \A g \in Procs : call[g].pc = "get_check"

(* ===================== properties of the registry ===================== *)
\* C4: for every subscription ID at most one client is ever constructed
\* successfully and stored, whatever the interleaving of the callers that
\* found it missing; every caller that goes on to query holds that client.
C4_OneClientPerSubscription ==
    \A k \in Subs :
        /\ Cardinality(hist.made[k]) <= 1
        /\ Lookup(LogQueryClients, k) # NilClient
              => hist.made[k] = {Lookup(LogQueryClients, k)}
        /\ \A c \in Callers :
              (rq[c].pc = "rq_query" /\ rq[c].sub = k)
                 => /\ rq[c].client # NilClient
                    /\ hist.made[k] = {rq[c].client}
                    /\ Lookup(LogQueryClients, k) = rq[c].client

\* Two callers that both found the ID missing, before any construction for it
\* had completed, both go on to query.
C4_Witness ==
    \E c, d \in Callers :
        /\ c # d
        /\ rq[c].pc = "rq_query" /\ rq[d].pc = "rq_query"
        /\ rq[c].sub = rq[d].sub
        /\ rq[c].early /\ rq[d].early
        /\ rq[c].client = rq[d].client

\* C5: of the callers that find the same ID missing before any construction for
\* it has completed, exactly one invokes the factory; if it succeeds they all
\* get that client, if it fails they all fail and the key remains absent.
C5_FactoryOncePerCohort ==
    \A k \in Subs :
        /\ hist.earlyCalls[k] <= 1
        /\ \A c \in Callers :
              (rq[c].early /\ rq[c].sub = k)
                 => /\ rq[c].pc = "rq_query" => hist.made[k] = {rq[c].client}
                    /\ rq[c].pc = "rq_fail" => k \notin DOMAIN LogQueryClients.m
                    /\ k \in hist.earlyFailed => rq[c].pc \notin {"rq_take", "rq_query"}

\* C6: a RunQuery whose client construction fails leaves LogQueryClients as it
\* was when the call took the write lock: the same nil or non-nil map, the
\* same keys and values; no entry, not even a nil one, is recorded.
C6_FailureLeavesRegistry ==
    \A c \in Callers : rq[c].pc = "rq_fail" => LogQueryClients = rq[c].snap

\* A construction is in flight: the caller is inside CreateLogsClient.
Constructing(d) == rq[d].pc = "rq_create"

\* C8: a caller requesting ID A is never blocked by an in-flight construction
\* for a different ID B: it can take the read lock for its lookup, or the write
\* lock for its own construction, while that construction is in progress.
C8_NotBlockedByOtherKey ==
    \A c, d \in Callers :
        (Constructing(d) /\ rq[c].sub # rq[d].sub)
           => /\ rq[c].pc = "rq_rlock" => ENABLED RqRLock(c)
              /\ rq[c].pc = "rq_lock" => ENABLED RqLock(c)

\* C8 as amended: a construction in flight holds the one write lock of the
\* registry, so a caller for any other ID can neither take the read lock for
\* its lookup nor the write lock for its own construction until it ends; with
\* the mutex free the caller is not blocked.
C8_BlockedByAnyConstruction ==
    \A c \in Callers :
        /\ \A d \in Callers :
              (Constructing(d) /\ rq[c].sub # rq[d].sub)
                 => /\ clientsMutex.writer = d
                    /\ rq[c].pc = "rq_rlock" => ~ENABLED RqRLock(c)
                    /\ rq[c].pc = "rq_lock" => ~ENABLED RqLock(c)
        /\ clientsMutex = FreeMutex
              => /\ rq[c].pc = "rq_rlock" => ENABLED RqRLock(c)
                 /\ rq[c].pc = "rq_lock" => ENABLED RqLock(c)

\* A caller waits for the read lock while a construction for another ID is
\* in flight.
C8_Witness ==
    \E c, d \in Callers :
        /\ Constructing(d)
        /\ rq[c].pc = "rq_rlock"
        /\ rq[c].sub # rq[d].sub

\* C13: when a non-nil client is already in the registry for the requested ID
\* as RunQuery starts, the call uses that client: it goes from the read-locked
\* look-up straight to the query, never holds the write lock and never
\* invokes CreateLogsClient.
C13_HitUsesStoredClient ==
    \A c \in Callers :
        rq[c].had # NilClient
           => /\ rq[c].pc \in {"rq_rlock", "rq_check", "rq_query"}
              /\ clientsMutex.writer # c
              /\ Lookup(LogQueryClients, rq[c].sub) = rq[c].had
              /\ rq[c].pc = "rq_query" => rq[c].client = rq[c].had

\* A call that found its client in the registry when it started is querying.
C13_Witness ==
    \E c \in Callers : rq[c].had # NilClient /\ rq[c].pc = "rq_query"

\* Caller c takes a step of its own.
RqActs(c) == rq'[c].pc # rq[c].pc

\* Every construction completed so far for k has failed (at least one has).
Failed(k) == k \in hist.completed /\ hist.made[k] = {}

\* C14: failure is not sticky. After a failed construction for k, a later
\* RunQuery for k goes to the write lock and invokes the factory again; when
\* that construction succeeds the new client is stored under k and is the
\* client the call queries with.
C14_FailureNotSticky ==
    [][\A c \in Callers :
         LET k == rq[c].sub
         IN /\ (rq[c].pc = "rq_check" /\ RqActs(c) /\ Failed(k))
                  => rq'[c].pc = "rq_lock"
            /\ (rq[c].pc = "rq_recheck" /\ RqActs(c) /\ Failed(k))
                  => rq'[c].pc = "rq_create"
            /\ (rq[c].pc = "rq_create" /\ RqActs(c) /\ Failed(k)
                   /\ rq'[c].pc = "rq_take")
                  => /\ Lookup(LogQueryClients', k) = nextClient
                     /\ nextClient # NilClient
                     /\ hist'.made[k] = {nextClient}
            /\ (rq[c].pc = "rq_take" /\ RqActs(c))
                  => /\ rq'[c].pc = "rq_query"
                     /\ rq'[c].client = Lookup(LogQueryClients, k)
                     /\ rq'[c].client # NilClient]_vars

\* A construction for the ID failed before any succeeded, and a later call
\* has constructed the client and is querying with it.
C14_Witness ==
    \E c \in Callers :
        /\ rq[c].pc = "rq_query"
        /\ rq[c].sub \in hist.earlyFailed
        /\ rq[c].had = NilClient
        /\ hist.made[rq[c].sub] = {rq[c].client}

\* C20: starting from the nil registry, once the callers have all returned the
\* registry is non-nil and holds exactly one key per distinct ID requested;
\* at every moment, and so at every read under the read lock, its keys are
\* among the IDs requested so far (its size is between 0 and their number).
C20_OneKeyPerRequestedID ==
    /\ DOMAIN LogQueryClients.m \subseteq hist.requested
    /\ \A c \in Callers :
          rq[c].pc = "rq_check"
             => Cardinality(DOMAIN LogQueryClients.m) \in 0..Cardinality(hist.requested)
    /\ (\A c \in Callers : rq[c].pc = "idle")
          => /\ DOMAIN LogQueryClients.m = hist.requested
             /\ hist.requested # {} => ~LogQueryClients.isNil

\* Every ID has been requested, every caller has returned, and one of the
\* keys is there although its construction never succeeded.
C20_Witness ==
    /\ \A c \in Callers : rq[c].pc = "idle"
    /\ hist.requested = Subs
    /\ DOMAIN LogQueryClients.m = Subs
    /\ \E k \in Subs : hist.made[k] = {}

(* ================ properties of ConvertJQLWithUsername ================= *)
CjActs(g) == cj'[g].pc # cj[g].pc

\* The call of g returns in this step.
CjReturns(g) == cj[g].pc # "idle" /\ cj'[g].pc = "idle"

\* C15: when the cache holds an unexpired entry username -> accountID,
\* ConvertJQLWithUsername(username) posts no request, returns the string
\* assignee = "<accountID>" with a nil error, and leaves the cache as it was.
C15_HitIssuesNoCall ==
    [][\A g \in SeqProcs :
         LET u == cj[g].username
         IN /\ (cj[g].pc = "cj_get" /\ GetDecides(g) /\ StrictlyFresh(u))
                  => GetReturns(g, <<cache[u].AccountID, TRUE>>)
            /\ (cj[g].pc = "cj_get" /\ CjActs(g) /\ call[g].ret[2])
                  => /\ cj'[g].pc = "idle"
                     /\ u \in DOMAIN cj[g].pre
                     /\ cj'[g].ret =
                           <<"assignee = \"" \o cj[g].pre[u].AccountID \o "\"", NilErr>>
                     /\ cj'[g].posts = 0
                     /\ cache' = cj[g].pre]_vars

\* The call has returned from a hit: a query and a nil error without a request.
C15_Witness ==
    \E g \in SeqProcs :
        /\ cj[g].pc = "idle" /\ cj[g].username # None
        /\ cj[g].posts = 0
        /\ cj[g].ret[2] = NilErr
        /\ cj[g].ret[1] = "assignee = \"acct2\""

\* C16: whenever ConvertJQLWithUsername(username) returns an error, the cache
\* is for that username exactly what it was before the call: no entry added,
\* changed or removed.
C16_ErrorLeavesCache ==
    [][\A g \in SeqProcs :
         LET u == cj[g].username
         IN (CjReturns(g) /\ cj'[g].ret[2] # NilErr)
               => /\ u \in DOMAIN cache' <=> u \in DOMAIN cj[g].pre
                  /\ u \in DOMAIN cache' => cache'[u] = cj[g].pre[u]]_vars

\* C16 as amended: when the call returns an error no entry has been added or
\* changed, and the only entry that can be gone is the one of that username,
\* removed by the call's own look-up because it had expired.
C16_ErrorOnlyEvictsExpired ==
    [][\A g \in SeqProcs :
         LET u == cj[g].username
         IN (CjReturns(g) /\ cj'[g].ret[2] # NilErr)
               => /\ cj'[g].ret[1] = ""
                  /\ \A k \in DOMAIN cache' :
                        k \in DOMAIN cj[g].pre /\ cache'[k] = cj[g].pre[k]
                  /\ \A k \in DOMAIN cj[g].pre \ DOMAIN cache' :
                        k = u /\ cj[g].pre[u].ExpiresAt < now /\ cj'[g].evicted]_vars

\* The call has returned an error after its look-up removed the expired entry.
C16_Witness ==
    \E g \in SeqProcs :
        /\ cj[g].pc = "idle"
        /\ cj[g].ret[2] # NilErr
        /\ cj[g].evicted
        /\ cj[g].username \notin DOMAIN cache

\* C17: on a miss followed by a successful resolution and extraction the call
\* posts exactly one request and stores exactly one entry, username -> the
\* extracted account ID with ExpiresAt = now + the constant TTL of 10
\* minutes; a Get(username) right after returns (extracted ID, true).
C17_MissStoresOneEntry ==
    [][\A g \in SeqProcs :
         LET u == cj[g].username
         IN /\ (cj[g].pc = "cj_set" /\ call[g].pc = "set_store" /\ Acts(g))
                  => /\ cj[g].accountID # ""
                     /\ cj[g].accountID = extractAccountIDFromJQL(cj[g].convertedQuery)
                     /\ DOMAIN cache' = DOMAIN cache \cup {u}
                     /\ cache'[u] = [AccountID |-> cj[g].accountID,
                                     ExpiresAt |-> now + CacheTTL]
                     /\ \A k \in DOMAIN cache \ {u} : cache'[k] = cache[k]
            /\ (cj[g].pc \in {"cj_cache", "cj_set"} /\ CjActs(g))
                  => cj[g].posts = 1 /\ cj'[g].posts = 1
            /\ (cj[g].pc = "cj_set" /\ CjReturns(g))
                  => /\ cj'[g].ret[2] = NilErr
                     /\ u \in DOMAIN cache'
                     /\ cache'[u].AccountID = cj[g].accountID
                     /\ \A k \in (DOMAIN cache' \cup DOMAIN cj[g].pre) \ {u} :
                           /\ k \in DOMAIN cache' /\ k \in DOMAIN cj[g].pre
                           /\ cache'[k] = cj[g].pre[k]
            /\ (cj[g].pc = "cj_set" /\ call[g].pc = "set_unlock" /\ Acts(g))
                  => /\ lastSet'.conv /\ lastSet'.key = u
                     /\ lastSet'.entry.AccountID = cj[g].accountID
            /\ (GetDecides(g) /\ call[g].conv /\ call[g].expect # ZeroEntry)
                  => GetReturns(g, <<call[g].expect.AccountID, TRUE>>)]_vars

\* The call missed, resolved and cached at time 1, and the Get that followed
\* has returned the account ID.
C17_Witness ==
    \E g \in SeqProcs :
        /\ call[g] = Returned("Get", lastSet.key, <<"acct1", TRUE>>)
        /\ lastSet.conv
        /\ lastSet.entry = [AccountID |-> "acct1", ExpiresAt |-> 1 + CacheTTL]

\* C18: a response with zero query strings is a failure whose error names the
\* username; a first converted query from which no account ID is extracted is
\* a different failure whose error carries that raw converted query; in both
\* cases the returned string is empty and nothing is cached.
C18_EmptyAndUnextractable ==
    [][\A g \in SeqProcs :
         LET u == cj[g].username
             qs == cj[g].resp.QueryStrings
         IN (cj[g].pc = "cj_parse" /\ CjActs(g) /\ cj[g].resp.parsed)
               => /\ Len(qs) = 0
                        => /\ CjReturns(g)
                           /\ cj'[g].ret = <<"", Err("noresult", u)>>
                           /\ cache' = cache /\ call' = call
                  /\ (Len(qs) > 0 /\ extractAccountIDFromJQL(qs[1]) = "")
                        => /\ CjReturns(g)
                           /\ cj'[g].ret = <<"", Err("extract", qs[1])>>
                           /\ Err("extract", qs[1]) # Err("noresult", u)
                           /\ cache' = cache /\ call' = call
                  /\ \A k \in DOMAIN cache' :
                        k \in DOMAIN cj[g].pre /\ cache'[k] = cj[g].pre[k]]_vars

\* The call has returned the extraction failure for a query in single quotes.
C18_Witness ==
    \E g \in SeqProcs :
        /\ cj[g].pc = "idle"
        /\ cj[g].ret = <<"", Err("extract", "assignee = 'acct1'")>>
        /\ cj[g].posts = 1

(* ============== properties of extractAccountIDFromJQL ================= *)
\* C19: extractAccountIDFromJQL(s) is the substring strictly between the first
\* and the last double quote of s when the last one comes strictly after the
\* first, and the empty string otherwise (no double quote, or only one).
C19_ExtractBetweenQuotes ==
    ex.pc = "returned"
       => LET s == ex.jql
              quotes == {i \in 1..Len(s) : SubSeq(s, i, i) = DQ}
          IN IF Cardinality(quotes) >= 2
             THEN \E i, j \in quotes :
                     /\ i < j
                     /\ \A n \in quotes : i <= n /\ n <= j
                     /\ Len(ex.accountID) = j - i - 1
                     /\ \A n \in 1..Len(ex.accountID) :
                           SubSeq(ex.accountID, n, n) = SubSeq(s, i + n, i + n)
             ELSE ex.accountID = ""

\* The call returned a non-empty account ID taken from a string that has a
\* third double quote inside the outer pair.
C19_Witness ==
    /\ ex.pc = "returned"
    /\ ex.accountID # ""
    /\ Cardinality(Occurrences(ex.jql, DQ)) >= 3
    /\ Cardinality(Occurrences(ex.accountID, DQ)) = 1

\* C23: permanence of registry entries. Once a non-nil client is stored for a
\* subscription ID no step of any RunQuery call, successful or failing, for
\* that ID or another, replaces it, sets it to nil or removes it.
C23_ClientsArePermanent ==
    [][\A k \in Subs :
         Lookup(LogQueryClients, k) # NilClient
            => /\ k \in DOMAIN LogQueryClients'.m
               /\ LogQueryClients'.m[k] = LogQueryClients.m[k]
               /\ ~LogQueryClients'.isNil]_vars

\* A client is stored for one ID, a construction for another ID has failed
\* since, and a further call for the first ID is past its look-up.
C23_Witness ==
    \E k, j \in Subs : \E c \in Callers :
        /\ k # j
        /\ Lookup(LogQueryClients, k) # NilClient
        /\ j \in DOMAIN LogQueryClients.m /\ LogQueryClients.m[j] = NilClient
        /\ rq[c].pc = "rq_query" /\ rq[c].sub = k /\ rq[c].had # NilClient

\* C24: the double-checked locking of RunQuery. CreateLogsClient is invoked
\* only by a caller that holds the exclusive lock and whose re-check under it
\* found no client for the ID; a caller that lost the race (its shared-lock
\* check found nothing, the client was there when it got the exclusive lock)
\* takes the existing client and constructs nothing.
C24_DoubleCheckedLocking ==
    /\ [](\A c \in Callers :
            rq[c].pc = "rq_create"
               => /\ clientsMutex.writer = c
                  /\ ~LogQueryClients.isNil
                  /\ Lookup(LogQueryClients, rq[c].sub) = NilClient)
    /\ [][/\ (nextClient' # nextClient \/ hist'.completed # hist.completed
                 \/ hist'.made # hist.made)
               => \E c \in Callers : rq[c].pc = "rq_create" /\ RqActs(c)
          /\ \A c \in Callers :
               LET k == rq[c].sub
               IN /\ (rq[c].pc = "rq_recheck" /\ RqActs(c)
                         /\ Lookup(LogQueryClients, k) # NilClient)
                        => /\ rq[c].client = NilClient
                           /\ rq'[c].pc = "rq_take"
                           /\ LogQueryClients' = LogQueryClients
                  /\ (rq[c].pc = "rq_take" /\ RqActs(c))
                        => /\ rq'[c].pc = "rq_query"
                           /\ rq'[c].client = Lookup(LogQueryClients, k)
                           /\ LogQueryClients' = LogQueryClients]_vars

\* A caller whose look-up found nothing holds the exclusive lock and is taking
\* the client that was there when it got the lock.
C24_Witness ==
    \E c \in Callers :
        /\ rq[c].pc = "rq_take"
        /\ rq[c].early
        /\ Lookup(rq[c].snap, rq[c].sub) # NilClient
        /\ clientsMutex.writer = c

\* C21: RunQuery with an empty WorkspaceID returns the "workspace ID is
\* required" error and otherwise, with an empty SubscriptionID, the
\* "subscription ID is required" error; the workspace check comes first; in
\* both cases no lock is taken, no client is constructed and LogQueryClients
\* is left as it was (a nil registry stays nil).
C21_ValidationBeforeRegistry ==
    [][\A c \in Callers :
         (rq[c].pc = "idle" /\ rq'[c] # rq[c])
            => LET r == rq'[c]
               IN /\ r.ws = "" => r.pc = "idle" /\ r.ret = "workspace"
                  /\ (r.ws # "" /\ r.sub = "") => r.pc = "idle" /\ r.ret = "subscription"
                  /\ (r.ws # "" /\ r.sub # "") => r.pc = "rq_rlock"
                  /\ r.pc = "idle"
                        => /\ LogQueryClients' = LogQueryClients
                           /\ clientsMutex' = clientsMutex
                           /\ nextClient' = nextClient
                           /\ hist' = hist
                           /\ r.client = NilClient]_vars

\* A call with both IDs empty has returned the workspace error, and the
\* registry is still nil.
C21_Witness ==
    \E c \in Callers :
        /\ rq[c].pc = "idle" /\ rq[c].ret = "workspace"
        /\ rq[c].ws = "" /\ rq[c].sub = ""
        /\ LogQueryClients = NilRegistry

(* ================= properties of the azurelogs widget ================= *)
\* The drawing goroutine takes a step of content().
DrawActs == draw'.pc # draw.pc \/ draw'.queued < draw.queued

\* content() returns with this step.
ContentReturns == DrawActs /\ draw'.pc = "idle"

\* C25: content() decides by strict priority.  An empty Queryfile gives the
\* configuration error; otherwise a lastError that is not nil gives the text
\* of the error; otherwise dataLoaded gives the rendered table, or "No table
\* data available" when tableData is nil; otherwise the loading text.  A
\* fetchDataAsync goroutine is started only in the last case and only when
\* loading is false, and loading is true when it starts.  setError stores
\* its error, then sets loading to false.
C25_ContentPriority ==
    [][/\ (DrawActs /\ draw.pc = "idle") =>
              /\ widget.Queryfile = ""
                    => /\ ContentReturns
                       /\ draw'.ret = [content |-> ConfigErrorText, wrap |-> FALSE]
              /\ (widget.Queryfile # "" /\ widget.lastError # NilError)
                    => /\ ContentReturns
                       /\ draw'.ret = [content |-> ErrorText(widget.lastError), wrap |-> TRUE]
              /\ (widget.Queryfile # "" /\ widget.lastError = NilError) => draw'.pc = "c_loaded"
       /\ (DrawActs /\ draw.pc = "c_loaded") =>
              draw'.pc = IF widget.dataLoaded THEN "c_render" ELSE "c_loading"
       /\ (DrawActs /\ draw.pc = "c_render") =>
              /\ ContentReturns
              /\ draw'.ret = IF widget.tableData.isNil
                             THEN [content |-> NoTableText, wrap |-> TRUE]
                             ELSE [content |-> TableText, wrap |-> FALSE]
       /\ (DrawActs /\ draw.pc = "c_loading") =>
              /\ ContentReturns
              /\ draw'.ret = [content |-> LoadingText, wrap |-> FALSE]
              /\ widget'.loading
              /\ widget.loading => fetch' = fetch
              /\ ~widget.loading => \E f \in Fetchers : /\ fetch[f].pc = "idle"
                                                        /\ fetch'[f].pc = "f_run"
       /\ (DrawActs /\ draw.pc # "c_loading") => (widget' = widget /\ fetch' = fetch)
       /\ \A f \in Fetchers :
              /\ (fetch[f].pc = "idle" /\ fetch'[f].pc # "idle")
                    => /\ DrawActs /\ draw.pc = "c_loading"
                       /\ ~widget.loading /\ widget'.loading
                       /\ fetch'[f].pc = "f_run"
              /\ (fetch[f].pc = "e_error" /\ fetch'[f] # fetch[f])
                    => /\ widget'.lastError = fetch[f].err
                       /\ fetch[f].err # NilError
                       /\ fetch'[f].pc = "e_loading"
              /\ (fetch[f].pc = "e_loading" /\ fetch'[f] # fetch[f])
                    => /\ ~widget'.loading
                       /\ widget'.lastError = widget.lastError
                       /\ fetch'[f].pc = "idle"]_vars

\* content() showed the error although data was loaded too: the error has
\* priority over the table.
C25_Witness ==
    /\ draw.pc = "idle"
    /\ widget.lastError # NilError
    /\ widget.dataLoaded
    /\ draw.ret = [content |-> ErrorText(widget.lastError), wrap |-> TRUE]
    /\ \E f \in Fetchers : fetch[f].pc = "f_run"

\* C28: for one widget, under any interleaving of Refresh, the runs of
\* content() and the completions of fetchDataAsync, at most one
\* fetchDataAsync goroutine is in flight at any time.
C28_OneFetchInFlight == Cardinality(InFlight) <= 1

\* C29: for one widget, in every state reached under any interleaving of
\* Refresh with a fetchDataAsync in flight, dataLoaded = true implies that
\* tableData is not nil and has a non-empty Header, and that lastError is
\* nil.
C29_LoadedHasTable ==
    widget.dataLoaded => /\ ~widget.tableData.isNil
                         /\ Len(widget.tableData.Header) > 0
                         /\ widget.lastError = NilError

(* =================== properties of the ping widget ==================== *)
\* C30: doPings resets the Up of every host to false and starts one
\* goroutine per host, which writes only hosts[idx] of its own index; it
\* returns only after all of them have finished.  When it has returned,
\* hosts[i].Up is true exactly for the hosts whose pinger was created, ran
\* without error and received a packet, and no goroutine of that call writes
\* hosts any more.
C30_DoPingsJoins ==
    /\ [](/\ ping.pc = "wait" => \A i \in HostIndexes : ping.g[i].pc # "none"
          /\ ping.pc \in {"loop", "wait"}
                => ping.wg = Cardinality({i \in HostIndexes : ping.g[i].pc \in {"run", "deferred"}})
          /\ ping.pc = "idle"
                => \/ \A i \in HostIndexes : ping.g[i] = NoPinger
                   \/ \A i \in HostIndexes :
                         /\ ping.g[i].pc = "done"
                         /\ ping.g[i].result \in {"no_pinger", "received", "lost"}
                         /\ hosts[i].Up <=> ping.g[i].result = "received")
    /\ [][\A i \in HostIndexes :
             /\ (ping.g[i].pc = "none" /\ ping'.g[i].pc # "none")
                   => /\ ping.pc = "loop" /\ ping.i = i
                      /\ ping'.g[i].pc = "run"
                      /\ ~hosts'[i].Up
                      /\ \A j \in HostIndexes \ {i} : ping'.g[j] = ping.g[j]
             /\ hosts'[i] # hosts[i]
                   => \/ ping.pc = "loop" /\ ping.i = i /\ ping.g[i].pc = "none"
                      \/ /\ ping.pc \in {"loop", "wait"}
                         /\ ping.g[i].pc = "run"
                         /\ ping'.g[i].pc = "deferred"
                         /\ \A j \in HostIndexes \ {i} : ping'.g[j] = ping.g[j]]_vars

\* doPings has returned with one host up, one that lost its packet and one
\* whose pinger could not be created.
C30_Witness ==
    /\ ping.pc = "idle"
    /\ \E i, j, k \in HostIndexes :
          /\ ping.g[i].result = "received" /\ hosts[i].Up
          /\ ping.g[j].result = "lost" /\ ~hosts[j].Up
          /\ ping.g[k].result = "no_pinger" /\ ~hosts[k].Up

\* C27: hit and miss agree.  For every username and every converted query
\* from which an account ID is extracted, the string returned by the call
\* of ConvertJQLWithUsername that missed and stored the account ID equals
\* the string returned by the next call for that username, which hits.
C27_HitEqualsMiss ==
    [][\A g \in SeqProcs :
          (/\ cj[g].pc = "cj_get" /\ cj'[g].pc = "idle"
           /\ cj[g].miss # None
           /\ cj'[g].posts = 0 /\ cj'[g].ret[2] = NilErr)
             => cj'[g].ret[1] = cj[g].miss]_vars

(* ================= release of the locks, termination ================== *)
\* The part of RunQuery that works on the registry.
RegistrySection ==
    {"rq_rlock", "rq_check", "rq_lock", "rq_recheck", "rq_create", "rq_fail", "rq_take"}

Holds(m, g) == g \in m.readers \/ m.writer = g

\* Goroutine g is inside Get, Set or Clear, or inside the registry section.
InCall(g) == call[g].pc # "idle" \/ rq[g].pc \in RegistrySection

\* Goroutine g is inside a call and cannot take its next step.
CacheBlocked(g) == call[g].pc # "idle" /\ ~ENABLED CacheStep(g)
RqBlocked(c) == rq[c].pc \in RegistrySection /\ ~ENABLED RqStep(c)

\* C26: every call of Get, Set, Clear and of the registry section of
\* RunQuery releases every lock it took, on every path: a goroutine outside
\* a call holds no lock, and a goroutine that waits for a lock waits for a
\* goroutine that holds it and can run, so that never all goroutines wait.
\* Under fair scheduling, with a CreateLogsClient that terminates, every call
\* of Get, Set and Clear returns and every RunQuery leaves its registry
\* section.
C26_LocksReleased ==
    /\ [](\A g \in Procs :
            /\ call[g].pc = "idle" => ~Holds(mutex, g)
            /\ rq[g].pc \notin RegistrySection \ {"rq_rlock", "rq_lock"}
                  => ~Holds(clientsMutex, g)
            /\ CacheBlocked(g) => \E h \in Procs \ {g} : Holds(mutex, h) /\ ENABLED CacheStep(h)
            /\ RqBlocked(g) => \E h \in Procs \ {g} : Holds(clientsMutex, h) /\ ENABLED RqStep(h))
    /\ \A g \in Procs : InCall(g) ~> ~InCall(g)

\* One goroutine has returned from RunQuery on the path of the failed
\* construction, and the other, which waited for the lock, holds it now.
C26_Witness ==
    \E c, d \in Procs :
        /\ rq[c].pc = "idle" /\ rq[c].ret = "create"
        /\ rq[d].pc = "rq_recheck" /\ rq[d].early
        /\ clientsMutex.writer = d
        /\ hist.earlyFailed # {}

====
